---- MODULE Spec2Model ----
(***************************************************************************)
(* Batch analysis pipeline of the exam app: App.tsx (one worker, revision   *)
(* "App") and its earlier revision src/unnamed/part_000 (two workers,       *)
(* revision "part_000"), with retryWithBackoff / analyzeQuestionImage of    *)
(* services/geminiService.ts.                                               *)
(*                                                                          *)
(* JavaScript is single threaded: the code between two awaits runs as one   *)
(* step.  Every action below is one such step (an event handler, or the     *)
(* continuation of a worker after one of its awaits, followed by all the    *)
(* microtask continuations it triggers).                                    *)
(***************************************************************************)
EXTENDS Integers, Sequences, FiniteSets, TLC

VARIABLES
    variant,         \* which revision of App runs: "App" or "part_000"
    status,          \* useState<AppStatus>
    session,         \* useState<ExamSession | null>
    history,         \* useState<HistoryEntry[]>
    processedCount,  \* useState(0)
    shownCount,      \* the processedCount of the last render: what the LOADING view
                     \* shows and the closures of its handlers hold
    totalToProcess,  \* useState(0)
    isRateLimited,   \* useState(false)
    questionsRef,    \* useRef<QuestionData[]>([]) .current
    lsCache,         \* localStorage item CACHE_KEY (the stored JSON text, or NoItem)
    lsHistory,       \* localStorage item HISTORY_KEY
    nBatches,        \* number of processBatch() invocations so far
    files,           \* files[b]: validImageFiles of invocation b
    queue,           \* queue[b]: the queue array of invocation b
    cache,           \* cache[b]: the cache object of invocation b
    closure,         \* closure[b]: status, processedCount, totalToProcess captured by handleFileUpload
    poolDone,        \* poolDone[b]: `await Promise.all(workers)` has resumed
    wpc,             \* wpc[b][w]: where worker w of invocation b is suspended
    wfile,           \* wfile[b][w]: its `file`
    wres,            \* wres[b][w]: its `result`
    outcomes,        \* history variable: per invocation, the jobs whose `finally` ran
    sinceCall,       \* history variable: sinceCall[b][w], the milliseconds of setTimeout
                     \* worker w has awaited since its last remote call settled
    showExplanation, \* useState(false) of the mounted ExamView
    crashed,         \* a render threw: React has unmounted the component tree
    rt               \* one analyzeQuestionImage call followed attempt by attempt (SpecRetry)

vars == <<variant, status, session, history, processedCount, shownCount, totalToProcess,
          isRateLimited, questionsRef, lsCache, lsHistory, nBatches, files, queue,
          cache, closure, poolDone, wpc, wfile, wres, outcomes, sinceCall,
          showExplanation, crashed, rt>>

appVars == <<status, session, history, processedCount, shownCount, totalToProcess,
             isRateLimited, questionsRef, lsCache, lsHistory, nBatches, files, queue,
             cache, closure, poolDone, wpc, wfile, wres, outcomes, sinceCall,
             showExplanation, crashed>>

----------------------------------------------------------------------------
(* Bounds of the model *)

\* total number of accepted image files over all uploads of one run
MaxJobs == 2

(* Program constants *)

\* retryWithBackoff(fn, retries = 5, initialDelay = 3000)
retries == 5
initialDelay == 3000

\* const MAX_CONCURRENT_REQUESTS = 1 (App.tsx) / = 2 (part_000)
MAX_CONCURRENT_REQUESTS == IF variant = "App" THEN 1 ELSE 2

\* const REQUEST_SPACING = 5000 (App.tsx) / = 1500 (part_000)
REQUEST_SPACING == IF variant = "App" THEN 5000 ELSE 1500

Batches == 1..MaxJobs
Workers == 1..2

NULL == [null |-> TRUE]
NoItem == [noItem |-> TRUE]
NoError == [noError |-> TRUE]
NoFile == [noFile |-> TRUE]
NoRec == [undefined |-> TRUE]
NoClosure == [status |-> "SETUP", processedCount |-> 0, totalToProcess |-> 0]

\* sinceCall of a worker that has made no remote call
NoCall == -1

----------------------------------------------------------------------------
(* Input files *)

File(p, n, s, t) == [path |-> p, name |-> n, size |-> s, type |-> t]

f1 == File("d/q1.png", "q1.png", 10, "image/png")
f2 == File("d/q2.jpg", "q2.jpg", 20, "image/jpeg")
\* same name and size as f1, in another folder of the selection
f3 == File("d/sub/q1.png", "q1.png", 10, "image/png")
f4 == File("d/notes.txt", "notes.txt", 5, "text/plain")

\* the file lists a user may select (e.target.files)
Selections ==
    { <<f4>>, <<f1>>, <<f2>>, <<f1, f4, f2>>, <<f1, f3>>, <<f1, f2, f3>> }

\* file.type.startsWith('image/png') || file.type.startsWith('image/jpeg')
isValidImage(file) == file.type \in {"image/png", "image/jpeg"}

RECURSIVE filter(_)
filter(fs) ==
    IF fs = <<>> THEN <<>>
    ELSE IF isValidImage(Head(fs)) THEN <<Head(fs)>> \o filter(Tail(fs))
         ELSE filter(Tail(fs))

\* const cacheId = `${file.name}_${file.size}`: size is a number, so the text after
\* the last "_" is the size and the rest the name; the pair stands for the string
cacheId(file) == <<file.name, file.size>>

CacheIds == { cacheId(f) : f \in {f1, f2, f3, f4} }

----------------------------------------------------------------------------
(* Analysis records and the persisted cache *)

\* the record JSON.parse(response.text) of the successful call of invocation b on file
Rec(b, file) == [src |-> file.path, run |-> b, correctAnswer |-> "A"]

\* a record stored by an earlier run of the app
OldRec == [src |-> "d/q2.jpg", run |-> 0, correctAnswer |-> "A"]

EmptyCache == [k \in CacheIds |-> NoRec]

\* JSON.stringify(cache): the members of the object, keys with a value only
stringify(obj) ==
    [members |-> { <<k, obj[k]>> : k \in { x \in CacheIds : obj[x] # NoRec } }]

\* cacheRaw ? JSON.parse(cacheRaw) : {}
parseCache(raw) ==
    IF raw = NoItem THEN EmptyCache
    ELSE [k \in CacheIds |->
            IF \E m \in raw.members : m[1] = k
            THEN (CHOOSE m \in raw.members : m[1] = k)[2] ELSE NoRec]

\* variation: the cache test never finds a record
cacheHitNever(obj, id) == FALSE

\* if (cache[cacheId]): a stored record is an object, hence truthy
cacheHit(obj, id) == obj[id] # NoRec

\* variation: the first file is read (queue[0]) but stays in the queue
shiftKeeps(q) == q

\* queue.shift() removes the first file: what it leaves in the queue
shift(q) == Tail(q)

\* the fingerprints the persisted cache holds
Persisted == IF lsCache = NoItem THEN {} ELSE { m[1] : m \in lsCache.members }

----------------------------------------------------------------------------
(* retryWithBackoff and analyzeQuestionImage *)

\* what one ai.models.generateContent call can do: reject with an error that has a
\* message and possibly a status (0: no status property), or resolve with a response
\* whose text is JSON of the schema, empty, or not JSON
ApiErrors ==
    { [message |-> "429 Too Many Requests", status |-> 429],
      [message |-> "RESOURCE_EXHAUSTED",    status |-> 0],
      [message |-> "quota",                 status |-> 429],
      [message |-> "Internal error",        status |-> 500],
      [message |-> "Unavailable",           status |-> 599],
      [message |-> "Unexpected",            status |-> 600],
      [message |-> "Bad request",           status |-> 400],
      [message |-> "fetch failed",          status |-> 0] }

Replies ==
    { [kind |-> "error", error |-> e, text |-> ""] : e \in ApiErrors }
    \cup { [kind |-> "response", error |-> NoError, text |-> t] :
              t \in {"json", "", "not json"} }

\* message.includes("429")
includes429(msg) == msg \in {"429 Too Many Requests"}

\* message.includes("RESOURCE_EXHAUSTED")
includesExhausted(msg) == msg \in {"RESOURCE_EXHAUSTED"}

\* throw new Error("Invalid AI response format")
MalformedError == [message |-> "Invalid AI response format", status |-> 0]

\* the body of the function analyzeQuestionImage hands to retryWithBackoff, after
\* generateContent has settled with `reply`: the error it throws, or NoError
fnError(reply) ==
    IF reply.kind = "error" THEN reply.error
    ELSE IF reply.text = "json" THEN NoError
    ELSE MalformedError

isQuotaExceeded(error) ==
    includes429(error.message) \/ error.status = 429 \/ includesExhausted(error.message)

\* variation: every error with a status of 400 or more is retried
isRetryableAnyStatus(error) ==
    isQuotaExceeded(error) \/ error.status >= 400

\* variation: an error without a status is taken for a network failure and retried
isRetryableNoStatus(error) ==
    isQuotaExceeded(error) \/ (error.status >= 500 /\ error.status < 600)
        \/ error.status = 0

isRetryable(error) ==
    isQuotaExceeded(error) \/ (error.status >= 500 /\ error.status < 600)

\* let delay = initialDelay; for (let i = 0; ...
retryStart == [i |-> 0, delay |-> initialDelay]

\* variation: the catch block tests i < retries, so the last attempt waits too
retryCatchOffByOne(r, error) ==
    IF r.i < retries /\ isRetryable(error)
    THEN [throw |-> FALSE,
          waitTime |-> IF isQuotaExceeded(error)
                       THEN (r.delay * (2 * r.i + 3)) \div 2 ELSE r.delay]
    ELSE [throw |-> TRUE, waitTime |-> 0]

\* the catch block of attempt r.i: wait and retry, or throw.
\* delay * (i + 1.5) is computed as delay * (2i + 3) / 2, exact as delay is even
retryCatch(r, error) ==
    IF r.i < retries - 1 /\ isRetryable(error)
    THEN [throw |-> FALSE,
          waitTime |-> IF isQuotaExceeded(error)
                       THEN (r.delay * (2 * r.i + 3)) \div 2 ELSE r.delay]
    ELSE [throw |-> TRUE, waitTime |-> 0]

\* variation: the delay is not doubled
retryContinueNoDoubling(r) == [i |-> r.i + 1, delay |-> r.delay]

\* delay *= 2; continue  (i++)
retryContinue(r) == [i |-> r.i + 1, delay |-> r.delay * 2]

\* the loop test i < retries: when it fails, `return fn()` after the loop makes a
\* call whose error no catch block sees
inLoop(r) == r.i < retries

\* the loop of retryWithBackoff from state r on, where attempt r.i + k - 1 of fn gets
\* the reply script[k]: how the call settles, with which error, after how many
\* attempts and which waits.  "pending": the script ends before the call settles;
\* "unused": the call settles before the script ends
RECURSIVE retryLoop(_, _, _)
retryLoop(r, script, waits) ==
    IF script = <<>>
    THEN [settled |-> "pending", error |-> NoError, attempts |-> r.i, waits |-> waits]
    ELSE LET error == fnError(Head(script))
             last == Len(script) = 1
         IN  IF error = NoError
             THEN [settled |-> IF last THEN "resolved" ELSE "unused",
                   error |-> NoError, attempts |-> r.i + 1, waits |-> waits]
             ELSE IF ~inLoop(r) \/ retryCatch(r, error).throw
             THEN [settled |-> IF last THEN "rejected" ELSE "unused",
                   error |-> error, attempts |-> r.i + 1, waits |-> waits]
             ELSE retryLoop(retryContinue(r), Tail(script),
                            Append(waits, retryCatch(r, error).waitTime))

retryWithBackoff(script) == retryLoop(retryStart, script, <<>>)

\* the reply scripts the workers of the app are run against: no attempt or
\* retries - 1 attempts that fail with a 429, then one more reply
repeated(n, reply) == [k \in 1..n |-> reply]

Scripts ==
    { repeated(n, first) \o <<last>> :
        n \in {0, retries - 1},
        first \in { x \in Replies : x.kind = "error" /\ includes429(x.error.message) },
        last \in Replies }

\* the scripts after which the call resolves with a record / rejects with an error
Resolving == { script \in Scripts : retryWithBackoff(script).settled = "resolved" }
Rejecting == { script \in Scripts : retryWithBackoff(script).settled = "rejected" }

\* the errors analyzeQuestionImage rejects with
Rejections == { retryWithBackoff(script).error : script \in Rejecting }

----------------------------------------------------------------------------
(* One call of analyzeQuestionImage, attempt by attempt *)

\* pc: "attempt" (fn is running), "wait" (the setTimeout of the catch block),
\* "resolved", "rejected"; attempts: calls of fn so far; errors: the errors fn threw;
\* waits: the waitTime of every wait; error: the error the call rejected with
rtOff ==
    [pc |-> "off", i |-> 0, delay |-> 0, attempts |-> 0, errors |-> <<>>,
     waits |-> <<>>, error |-> NoError]

\* analyzeQuestionImage(base64Image): retryWithBackoff(fn) calls fn at i = 0
rtCalled ==
    [pc |-> "attempt", i |-> retryStart.i, delay |-> retryStart.delay, attempts |-> 1,
     errors |-> <<>>, waits |-> <<>>, error |-> NoError]

\* fn settles with `reply` and returns: return await fn()
rtAttemptReturns(reply) ==
    /\ rt.pc = "attempt"
    /\ fnError(reply) = NoError
    /\ rt' = [rt EXCEPT !.pc = "resolved"]
    /\ UNCHANGED <<variant, appVars>>

\* fn settles with `reply` and throws: the catch block, or past the loop no catch
rtAttemptThrows(reply) ==
    LET error == fnError(reply)
        r == [i |-> rt.i, delay |-> rt.delay]
        caught == Append(rt.errors, error)
    IN  /\ rt.pc = "attempt"
        /\ error # NoError
        /\ rt' = IF ~inLoop(r) \/ retryCatch(r, error).throw
                 THEN [rt EXCEPT !.pc = "rejected", !.errors = caught, !.error = error]
                 ELSE [rt EXCEPT !.pc = "wait", !.errors = caught,
                                 !.waits = Append(@, retryCatch(r, error).waitTime)]
        /\ UNCHANGED <<variant, appVars>>

\* the wait is over: delay *= 2; continue; the next call of fn
rtWaitOver ==
    LET r == retryContinue([i |-> rt.i, delay |-> rt.delay])
    IN  /\ rt.pc = "wait"
        /\ rt' = [rt EXCEPT !.pc = "attempt", !.i = r.i, !.delay = r.delay,
                            !.attempts = @ + 1]
        /\ UNCHANGED <<variant, appVars>>

----------------------------------------------------------------------------
(* App: state after construction *)

idleWorkers == [w \in Workers |-> "none"]

Init ==
    /\ variant \in {"App", "part_000"}
    /\ status = "SETUP"
    /\ session = NULL
    /\ history = <<>>
    /\ processedCount = 0
    /\ shownCount = 0
    /\ totalToProcess = 0
    /\ isRateLimited = FALSE
    /\ questionsRef = <<>>
    /\ lsCache \in {NoItem, stringify([EmptyCache EXCEPT ![cacheId(f2)] = OldRec])}
    /\ lsHistory = <<>>
    /\ nBatches = 0
    /\ files = [b \in Batches |-> <<>>]
    /\ queue = [b \in Batches |-> <<>>]
    /\ cache = [b \in Batches |-> EmptyCache]
    /\ closure = [b \in Batches |-> NoClosure]
    /\ poolDone = [b \in Batches |-> FALSE]
    /\ wpc = [b \in Batches |-> idleWorkers]
    /\ wfile = [b \in Batches |-> [w \in Workers |-> NoFile]]
    /\ wres = [b \in Batches |-> [w \in Workers |-> NoRec]]
    /\ outcomes = [b \in Batches |-> <<>>]
    /\ sinceCall = [b \in Batches |-> [w \in Workers |-> NoCall]]
    /\ showExplanation = FALSE
    /\ crashed = FALSE
    /\ rt = rtOff

----------------------------------------------------------------------------
(* Rendering *)

\* {status === AppStatus.EXAM && session && (<ExamView question={...} />)}
examViewMounted(st, se) == st = "EXAM" /\ se # NULL

\* ExamView reads question.image of session.questions[session.currentIndex]: with
\* no such question the render throws and React unmounts the tree
renderThrows(st, se) ==
    examViewMounted(st, se) /\ se.currentIndex + 1 > Len(se.questions)

\* what a step that leaves status st and session se does to the component tree;
\* show is the ExamView state the step itself sets, if the view stays mounted
rendered(st, se, show) ==
    /\ crashed' = (crashed \/ renderThrows(st, se))
    /\ showExplanation' =
         IF examViewMounted(status, session) /\ examViewMounted(st, se) THEN show
         ELSE FALSE

----------------------------------------------------------------------------
(* startExam *)

\* Date.now(): the clock of the model ticks when an upload starts a batch.  The
\* LOADING view is entered by such an upload only, so one lies between any two
\* calls of startExam and they read different times
now == nBatches

\* the session startExam sets; processed/total are the processedCount and
\* totalToProcess of the render whose startExam is called
newSession(qs, processed, total) ==
    [id |-> now, questions |-> qs, currentIndex |-> 0, score |-> 0, answers |-> <<>>,
     isFinished |-> FALSE, isStillLoading |-> processed < total]

\* part_000: if (questionsRef.current.length === 0) return;
startExamReturnsEarly(qs) == variant = "part_000" /\ Len(qs) = 0

----------------------------------------------------------------------------
(* processBatch: the workers *)

\* const newQuestion = {id, image: base64, ..., correctAnswer: result.correctAnswer}
newQuestion(b, file, result) ==
    [id |-> <<b, file.path>>, image |-> file.path, rec |-> result,
     correctAnswer |-> result.correctAnswer]

\* variation: the updater does not spread prev.answers: the answers are dropped
withQuestionsAnswersDropped(se, qs) ==
    IF se # NULL THEN [se EXCEPT !.questions = qs, !.answers = <<>>] ELSE NULL

\* setSession(prev => prev ? { ...prev, questions: [...questionsRef.current] } : null)
withQuestions(se, qs) == IF se # NULL THEN [se EXCEPT !.questions = qs] ELSE NULL

\* setSession(prev => prev ? { ...prev, isStillLoading: false } : null)
withLoadingCleared(se) == IF se # NULL THEN [se EXCEPT !.isStillLoading = FALSE] ELSE NULL

\* if (msg.includes("429") || msg.includes("RESOURCE_EXHAUSTED")) setIsRateLimited(true)
signalsRateLimit(err) == includes429(err.message) \/ includesExhausted(err.message)

\* the statements after `await Promise.all(workers)` of invocation b, run with the
\* session se and question list qs the last worker left
afterPromiseAll(b, se, qs) ==
    LET starts == /\ closure[b].status = "LOADING"
                  /\ Len(qs) > 0
                  /\ ~startExamReturnsEarly(qs)
        se2 == IF starts
               THEN newSession(qs, closure[b].processedCount, closure[b].totalToProcess)
               ELSE withLoadingCleared(se)
        st2 == IF starts THEN "EXAM" ELSE status
    IN  /\ poolDone' = [poolDone EXCEPT ![b] = TRUE]
        /\ session' = se2
        /\ status' = st2
        /\ rendered(st2, se2, showExplanation)

\* the end of one iteration of worker w of invocation b: `finally`, then the loop
\* test and, with a file left, queue.shift() up to the await of the file read; with
\* none the worker returns and, as the last one, resolves Promise.all.
\* qs, se, rl: questionsRef.current, session, isRateLimited as try/catch left them
endOfIteration(b, w, qs, se, rl, entry) ==
    LET more == Len(queue[b]) > 0
        pcs == [wpc[b] EXCEPT ![w] = IF more THEN "read" ELSE "done"]
    IN  /\ questionsRef' = qs
        /\ isRateLimited' = rl
        /\ processedCount' = processedCount + 1
        /\ outcomes' = [outcomes EXCEPT ![b] = Append(@, entry)]
        /\ queue' = [queue EXCEPT ![b] = IF more THEN shift(@) ELSE @]
        /\ wfile' = [wfile EXCEPT ![b][w] = IF more THEN Head(queue[b]) ELSE NoFile]
        /\ wpc' = [wpc EXCEPT ![b] = pcs]
        /\ wres' = [wres EXCEPT ![b][w] = NoRec]
        /\ IF \A x \in Workers : pcs[x] \in {"none", "done"}
           THEN afterPromiseAll(b, se, qs)
           ELSE /\ session' = se
                /\ status' = status
                /\ poolDone' = poolDone
                /\ rendered(status, se, showExplanation)

\* questionsRef.current.push(newQuestion); setSession(...); finally; loop
emit(b, w, result, remote) ==
    LET q == newQuestion(b, wfile[b][w], result)
        qs == Append(questionsRef, q)
    IN  endOfIteration(b, w, qs, withQuestions(session, qs), isRateLimited,
                       [path |-> wfile[b][w].path, ok |-> TRUE, remote |-> remote])

\* variation: the catch block rethrows after `finally`, which ends the worker
failStopsWorker(b, w, err) ==
    LET pcs == [wpc[b] EXCEPT ![w] = "done"]
        rl == isRateLimited \/ signalsRateLimit(err)
    IN  /\ questionsRef' = questionsRef
        /\ isRateLimited' = rl
        /\ processedCount' = processedCount + 1
        /\ outcomes' = [outcomes EXCEPT ![b] =
                          Append(@, [path |-> wfile[b][w].path, ok |-> FALSE,
                                     remote |-> TRUE])]
        /\ queue' = queue
        /\ wfile' = [wfile EXCEPT ![b][w] = NoFile]
        /\ wpc' = [wpc EXCEPT ![b] = pcs]
        /\ wres' = [wres EXCEPT ![b][w] = NoRec]
        /\ IF \A x \in Workers : pcs[x] \in {"none", "done"}
           THEN afterPromiseAll(b, session, questionsRef)
           ELSE /\ session' = session
                /\ status' = status
                /\ poolDone' = poolDone
                /\ rendered(status, session, showExplanation)

\* catch (err) {...}; finally; loop
fail(b, w, err) ==
    endOfIteration(b, w, questionsRef, session,
                   isRateLimited \/ signalsRateLimit(err),
                   [path |-> wfile[b][w].path, ok |-> FALSE, remote |-> TRUE])

----------------------------------------------------------------------------
(* handleFileUpload, with the synchronous part of processBatch() *)

RECURSIVE jobsStarted(_)
jobsStarted(b) == IF b = 0 THEN 0 ELSE Len(files[b]) + jobsStarted(b - 1)

min(a, b) == IF a <= b THEN a ELSE b

\* variation: one worker is started whatever MAX_CONCURRENT_REQUESTS is
workersStartedOne(validImageFiles) == min(1, Len(validImageFiles))

\* for (i < Math.min(MAX_CONCURRENT_REQUESTS, validImageFiles.length)) workers.push(worker())
workersStarted(validImageFiles) == min(MAX_CONCURRENT_REQUESTS, Len(validImageFiles))

\* variation: no early return when validImageFiles is empty
handleFileUploadNoEmptyReturn(selection) ==
    LET validImageFiles == filter(selection)
        n == Len(validImageFiles)
        k == workersStarted(validImageFiles)
        b == nBatches + 1
        \* processBatch reads the counts of its closure only in the startExam call it
        \* makes when the status of its closure is LOADING: no others are kept
        captured == [status |-> status,
                     processedCount |-> IF status = "LOADING" THEN processedCount ELSE 0,
                     totalToProcess |-> IF status = "LOADING" THEN totalToProcess ELSE 0]
    IN  /\ ~crashed
        /\ status = "SETUP"
        /\ Len(selection) > 0
        /\ jobsStarted(nBatches) + n <= MaxJobs
        /\ isRateLimited' = FALSE
        /\ processedCount' = 0
        /\ shownCount' = 0
        /\ questionsRef' = <<>>
        /\ totalToProcess' = n
        /\ status' = "LOADING"
        /\ nBatches' = b
        /\ files' = [files EXCEPT ![b] = validImageFiles]
        /\ queue' = [queue EXCEPT ![b] = SubSeq(validImageFiles, k + 1, n)]
        /\ cache' = [cache EXCEPT ![b] = parseCache(lsCache)]
        /\ closure' = [closure EXCEPT ![b] = captured]
        /\ wpc' = [wpc EXCEPT ![b] =
                     [w \in Workers |-> IF w <= k THEN "read" ELSE "none"]]
        /\ wfile' = [wfile EXCEPT ![b] =
                       [w \in Workers |-> IF w <= k THEN validImageFiles[w]
                                          ELSE NoFile]]
        /\ rendered(status', session, showExplanation)
        /\ UNCHANGED <<variant, session, history, lsCache, lsHistory, poolDone, wres,
                       outcomes, sinceCall, rt>>

\* the <input type="file"> is rendered in SETUP only
handleFileUpload(selection) ==
    LET validImageFiles == filter(selection)
        n == Len(validImageFiles)
        k == workersStarted(validImageFiles)
        b == nBatches + 1
        \* processBatch reads the counts of its closure only in the startExam call it
        \* makes when the status of its closure is LOADING: no others are kept
        captured == [status |-> status,
                     processedCount |-> IF status = "LOADING" THEN processedCount ELSE 0,
                     totalToProcess |-> IF status = "LOADING" THEN totalToProcess ELSE 0]
    IN  /\ ~crashed
        /\ status = "SETUP"
        /\ Len(selection) > 0
        /\ jobsStarted(nBatches) + n <= MaxJobs
        /\ isRateLimited' = FALSE
        /\ processedCount' = 0
        /\ shownCount' = 0
        /\ questionsRef' = <<>>
        /\ totalToProcess' = n
        /\ IF n = 0
           THEN /\ status' = "SETUP"
                /\ UNCHANGED <<nBatches, files, queue, cache, closure, wpc, wfile>>
           ELSE /\ status' = "LOADING"
                /\ nBatches' = b
                /\ files' = [files EXCEPT ![b] = validImageFiles]
                /\ queue' = [queue EXCEPT ![b] = SubSeq(validImageFiles, k + 1, n)]
                /\ cache' = [cache EXCEPT ![b] = parseCache(lsCache)]
                /\ closure' = [closure EXCEPT ![b] = captured]
                /\ wpc' = [wpc EXCEPT ![b] =
                             [w \in Workers |-> IF w <= k THEN "read" ELSE "none"]]
                /\ wfile' = [wfile EXCEPT ![b] =
                               [w \in Workers |-> IF w <= k THEN validImageFiles[w]
                                                  ELSE NoFile]]
        /\ rendered(status', session, showExplanation)
        /\ UNCHANGED <<variant, session, history, lsCache, lsHistory, poolDone, wres,
                       outcomes, sinceCall, rt>>

----------------------------------------------------------------------------
(* worker: the continuations of its awaits *)

\* App: await new Promise(r => setTimeout(r, 200)) after a cache hit
HIT_DELAY == 200

\* part_000: setTimeout(r, Math.random() * 500): the least and the longest delays
RandomDelays == {0, 499}

\* the worker has awaited a setTimeout of ms milliseconds: what sinceCall t becomes.
\* The model stops adding at REQUEST_SPACING
awaited(t, ms) == IF t = NoCall THEN NoCall ELSE min(t + ms, REQUEST_SPACING)

\* a continuation of a worker runs outside any event handler: React renders its
\* state updates in a later task (commit), so shownCount stays as it is
workerVars ==
    <<variant, history, shownCount, totalToProcess, lsHistory, nBatches, files, closure, rt>>

\* reader.onload has resolved base64: the cache test.  A hit waits 200 ms in App and
\* goes on at once in part_000; a miss calls analyzeQuestionImage in App and first
\* waits Math.random() * 500 ms in part_000
fileRead(b, w) ==
    LET id == cacheId(wfile[b][w])
    IN  /\ wpc[b][w] = "read"
        /\ IF cacheHit(cache[b], id)
           THEN IF variant = "App"
                THEN /\ wpc' = [wpc EXCEPT ![b][w] = "hitDelay"]
                     /\ wres' = [wres EXCEPT ![b][w] = cache[b][id]]
                     /\ UNCHANGED <<status, session, processedCount, isRateLimited,
                                    questionsRef, queue, poolDone, wfile, outcomes,
                                    showExplanation, crashed>>
                ELSE emit(b, w, cache[b][id], FALSE)
           ELSE /\ wpc' = [wpc EXCEPT ![b][w] =
                             IF variant = "App" THEN "remote" ELSE "preDelay"]
                /\ UNCHANGED <<status, session, processedCount, isRateLimited,
                               questionsRef, queue, poolDone, wfile, wres, outcomes,
                               showExplanation, crashed>>
        /\ UNCHANGED <<lsCache, cache, sinceCall>>
        /\ UNCHANGED workerVars

\* App: the 200 ms after a cache hit are over
hitDelayOver(b, w) ==
    /\ wpc[b][w] = "hitDelay"
    /\ emit(b, w, wres[b][w], FALSE)
    /\ sinceCall' = [sinceCall EXCEPT ![b][w] = awaited(@, HIT_DELAY)]
    /\ UNCHANGED <<lsCache, cache>>
    /\ UNCHANGED workerVars

\* part_000: the random delay is over; analyzeQuestionImage is called
preDelayOver(b, w) ==
    /\ wpc[b][w] = "preDelay"
    /\ wpc' = [wpc EXCEPT ![b][w] = "remote"]
    /\ \E ms \in RandomDelays : sinceCall' = [sinceCall EXCEPT ![b][w] = awaited(@, ms)]
    /\ UNCHANGED <<status, session, processedCount, isRateLimited, questionsRef,
                   lsCache, queue, cache, poolDone, wfile, wres, outcomes,
                   showExplanation, crashed>>
    /\ UNCHANGED workerVars

\* variation: the result is kept for the question but not stored
analyzeResolvesNoWrite(b, w, script) ==
    /\ wpc[b][w] = "remote"
    /\ script \in Resolving
    /\ wres' = [wres EXCEPT ![b][w] = Rec(b, wfile[b][w])]
    /\ wpc' = [wpc EXCEPT ![b][w] = "spacing"]
    /\ sinceCall' = [sinceCall EXCEPT ![b][w] = 0]
    /\ UNCHANGED <<status, session, processedCount, isRateLimited, questionsRef,
                   lsCache, queue, cache, poolDone, wfile, outcomes, showExplanation,
                   crashed>>
    /\ UNCHANGED workerVars

\* result = await analyzeQuestionImage(base64) resolves, after the attempts of
\* `script`: cache[cacheId] = result;
\* localStorage.setItem(CACHE_KEY, JSON.stringify(cache)); then the spacing wait
analyzeResolves(b, w, script) ==
    LET result == Rec(b, wfile[b][w])
        cacheB == [cache[b] EXCEPT ![cacheId(wfile[b][w])] = result]
    IN  /\ wpc[b][w] = "remote"
        /\ script \in Resolving
        /\ cache' = [cache EXCEPT ![b] = cacheB]
        /\ lsCache' = stringify(cacheB)
        /\ wres' = [wres EXCEPT ![b][w] = result]
        /\ wpc' = [wpc EXCEPT ![b][w] = "spacing"]
        /\ sinceCall' = [sinceCall EXCEPT ![b][w] = 0]
        /\ UNCHANGED <<status, session, processedCount, isRateLimited, questionsRef,
                       queue, poolDone, wfile, outcomes, showExplanation, crashed>>
        /\ UNCHANGED workerVars

\* await analyzeQuestionImage(base64) rejects with err: the worker's catch and finally
analyzeRejects(b, w, err) ==
    /\ wpc[b][w] = "remote"
    /\ err \in Rejections
    /\ fail(b, w, err)
    /\ sinceCall' = [sinceCall EXCEPT ![b][w] = 0]
    /\ UNCHANGED <<lsCache, cache>>
    /\ UNCHANGED workerVars

\* the REQUEST_SPACING wait after a fresh result is over: the question is built
spacingOver(b, w) ==
    /\ wpc[b][w] = "spacing"
    /\ emit(b, w, wres[b][w], TRUE)
    /\ sinceCall' = [sinceCall EXCEPT ![b][w] = awaited(@, REQUEST_SPACING)]
    /\ UNCHANGED <<lsCache, cache>>
    /\ UNCHANGED workerVars

----------------------------------------------------------------------------
(* The user's operations *)

pipelineVars == <<lsCache, nBatches, files, queue, cache, closure, poolDone, wpc,
                  wfile, wres, outcomes, sinceCall>>

\* the render React schedules for the state updates of the worker continuations:
\* App runs again with the current processedCount
commit ==
    /\ ~crashed
    /\ shownCount # processedCount
    /\ shownCount' = processedCount
    /\ UNCHANGED <<variant, status, session, history, processedCount, totalToProcess,
                   isRateLimited, questionsRef, lsHistory, showExplanation, crashed, rt>>
    /\ UNCHANGED pipelineVars

\* the button of the LOADING view, rendered once processedCount >= 1; the handler
\* reads processedCount and totalToProcess of that render:
\* onClick={() => startExam(session?.folderName || "Simulado")}
startExam ==
    /\ ~crashed
    /\ status = "LOADING"
    /\ shownCount >= 1
    /\ IF startExamReturnsEarly(questionsRef)
       THEN UNCHANGED <<status, session, showExplanation, crashed>>
       ELSE /\ session' = newSession(questionsRef, shownCount, totalToProcess)
            /\ status' = "EXAM"
            /\ rendered("EXAM", session', FALSE)
    /\ UNCHANGED <<variant, history, processedCount, shownCount, totalToProcess,
                   isRateLimited,
                   questionsRef, lsHistory, rt>>
    /\ UNCHANGED pipelineVars

\* the header logo (always) and the "Encerrar"/"Sair" button
reset ==
    /\ ~crashed
    /\ status' = "SETUP"
    /\ session' = NULL
    /\ processedCount' = 0
    /\ shownCount' = 0
    /\ isRateLimited' = FALSE
    /\ questionsRef' = <<>>
    /\ rendered("SETUP", NULL, FALSE)
    /\ UNCHANGED <<variant, history, totalToProcess, lsHistory, rt>>
    /\ UNCHANGED pipelineVars

Labels == {"A", "B"}

\* the model stops counting correct answers here (the code has no such limit)
MaxScore == MaxJobs + 1

\* ExamView.handleOptionSelect(option), which calls App.handleAnswer(option)
handleOptionSelect(option) ==
    /\ ~crashed
    /\ examViewMounted(status, session)
    /\ ~showExplanation
    /\ session.score < MaxScore
    /\ LET question == session.questions[session.currentIndex + 1]
           isCorrect == option = question.correctAnswer
       IN  session' = [session EXCEPT
                 !.score = IF isCorrect THEN @ + 1 ELSE @,
                 !.answers = [k \in DOMAIN @ \cup {question.id} |->
                                IF k = question.id THEN option ELSE @[k]]]
    /\ showExplanation' = TRUE
    /\ UNCHANGED <<variant, status, history, processedCount, shownCount, totalToProcess,
                   isRateLimited, questionsRef, lsHistory, crashed, rt>>
    /\ UNCHANGED pipelineVars

\* Math.round((score / questions.length) * 100), for 0 <= score and 1 <= length
accuracy(score, length) == (200 * score + length) \div (2 * length)

\* saveToHistory(finalSession): the entry put in front of the history
newEntry(finalSession) ==
    [id |-> finalSession.id,
     score |-> finalSession.score,
     total |-> Len(finalSession.questions),
     accuracy |-> accuracy(finalSession.score, Len(finalSession.questions))]

\* variation: the new entry replaces the history
updatedHistoryOnlyNew(entry, hist) == <<entry>>

\* const updatedHistory = [newEntry, ...history]
updatedHistory(entry, hist) == <<entry>> \o hist

\* variation: next on the last question finalizes whether or not jobs are left
handleNextNoGate ==
    /\ ~crashed
    /\ examViewMounted(status, session)
    /\ showExplanation
    /\ IF session.currentIndex + 1 >= Len(session.questions)
       THEN /\ history' = updatedHistory(newEntry(session), history)
            /\ lsHistory' = history'
            /\ status' = "RESULT"
            /\ UNCHANGED session
       ELSE /\ session' = [session EXCEPT !.currentIndex = @ + 1]
            /\ UNCHANGED <<status, history, lsHistory>>
    /\ rendered(status', session', FALSE)
    /\ UNCHANGED <<variant, processedCount, shownCount, totalToProcess, isRateLimited,
                   questionsRef, rt>>
    /\ UNCHANGED pipelineVars

\* ExamView.handleNext(), which calls App.handleNext(); the button is rendered
\* while showExplanation
handleNext ==
    /\ ~crashed
    /\ examViewMounted(status, session)
    /\ showExplanation
    /\ IF session.currentIndex + 1 >= Len(session.questions)
       THEN IF session.isStillLoading
            THEN UNCHANGED <<status, session, history, lsHistory>>
            ELSE /\ history' = updatedHistory(newEntry(session), history)
                 /\ lsHistory' = history'
                 /\ status' = "RESULT"
                 /\ UNCHANGED session
       ELSE /\ session' = [session EXCEPT !.currentIndex = @ + 1]
            /\ UNCHANGED <<status, history, lsHistory>>
    /\ rendered(status', session', FALSE)
    /\ UNCHANGED <<variant, processedCount, shownCount, totalToProcess, isRateLimited,
                   questionsRef, rt>>
    /\ UNCHANGED pipelineVars

\* onClick={() => setStatus(AppStatus.HISTORY)}: in SETUP with a history, and in RESULT
openHistory ==
    /\ ~crashed
    /\ \/ status = "SETUP" /\ Len(history) > 0
       \/ status = "RESULT" /\ session # NULL
    /\ status' = "HISTORY"
    /\ UNCHANGED <<variant, session, history, processedCount, shownCount, totalToProcess,
                   isRateLimited, questionsRef, lsHistory, showExplanation, crashed, rt>>
    /\ UNCHANGED pipelineVars

\* the "Voltar" button of the HISTORY view: setStatus(AppStatus.SETUP)
backToSetup ==
    /\ ~crashed
    /\ status = "HISTORY"
    /\ status' = "SETUP"
    /\ UNCHANGED <<variant, session, history, processedCount, shownCount, totalToProcess,
                   isRateLimited, questionsRef, lsHistory, showExplanation, crashed, rt>>
    /\ UNCHANGED pipelineVars

\* part_000: "Limpar Histórico" of the HISTORY view, confirmed
clearHistory ==
    /\ ~crashed
    /\ variant = "part_000"
    /\ status = "HISTORY"
    /\ history' = <<>>
    /\ lsHistory' = <<>>
    /\ UNCHANGED <<variant, status, session, processedCount, shownCount, totalToProcess,
                   isRateLimited, questionsRef, showExplanation, crashed, rt>>
    /\ UNCHANGED pipelineVars

----------------------------------------------------------------------------
(* The app *)

\* the steps of the workers of all processBatch() invocations
workerStep ==
    \E b \in Batches, w \in Workers :
        \/ fileRead(b, w)
        \/ hitDelayOver(b, w)
        \/ preDelayOver(b, w)
        \/ \E script \in Resolving : analyzeResolves(b, w, script)
        \/ \E err \in Rejections : analyzeRejects(b, w, err)
        \/ spacingOver(b, w)

Next ==
    \/ \E selection \in Selections : handleFileUpload(selection)
    \/ workerStep
    \/ commit
    \/ startExam
    \/ reset
    \/ \E option \in Labels : handleOptionSelect(option)
    \/ handleNext
    \/ openHistory
    \/ backToSetup
    \/ clearHistory

Spec == Init /\ [][Next]_vars

(* The pipeline with the operations that start, show and discard a batch.  The    *)
(* workers read and write none of status, session, history and showExplanation,   *)
(* and answering, finalizing and the history views change nothing else: every     *)
(* run of Spec, seen through the variables of the pipeline, is a run of           *)
(* SpecPipeline in which the way back to SETUP is a reset.                        *)
NextPipeline ==
    \/ \E selection \in Selections : handleFileUpload(selection)
    \/ workerStep
    \/ commit
    \/ startExam
    \/ reset

SpecPipeline == Init /\ [][NextPipeline]_vars

(* The exam on a running pipeline, without the history views: openHistory,        *)
(* backToSetup and clearHistory change status and history only, and the handlers  *)
(* of the exam read neither the history nor how SETUP was reached.                *)
NextExam ==
    \/ \E selection \in Selections : handleFileUpload(selection)
    \/ workerStep
    \/ commit
    \/ startExam
    \/ reset
    \/ \E option \in Labels : handleOptionSelect(option)
    \/ handleNext

SpecExam == Init /\ [][NextExam]_vars

(* The whole app on its first run in a browser, nothing stored yet: what the      *)
(* persisted cache holds at the start has no part in what the history gets.       *)
InitFirstRun == Init /\ lsCache = NoItem

SpecHistory == InitFirstRun /\ [][Next]_vars

(* The pipeline when every remote attempt eventually returns or fails, every     *)
(* timer fires and React gets to render: a worker that can go on does, and a     *)
(* pending render happens.  Nothing is assumed of the user.                      *)
SpecLive == Init /\ [][NextPipeline]_vars /\ WF_vars(workerStep) /\ WF_vars(commit)

(* One call of analyzeQuestionImage on its own, every attempt given any reply *)
InitRetry ==
    /\ variant = "App"
    /\ status = "SETUP"
    /\ session = NULL
    /\ history = <<>>
    /\ processedCount = 0
    /\ shownCount = 0
    /\ totalToProcess = 0
    /\ isRateLimited = FALSE
    /\ questionsRef = <<>>
    /\ lsCache = NoItem
    /\ lsHistory = <<>>
    /\ nBatches = 0
    /\ files = [b \in Batches |-> <<>>]
    /\ queue = [b \in Batches |-> <<>>]
    /\ cache = [b \in Batches |-> EmptyCache]
    /\ closure = [b \in Batches |-> NoClosure]
    /\ poolDone = [b \in Batches |-> FALSE]
    /\ wpc = [b \in Batches |-> idleWorkers]
    /\ wfile = [b \in Batches |-> [w \in Workers |-> NoFile]]
    /\ wres = [b \in Batches |-> [w \in Workers |-> NoRec]]
    /\ outcomes = [b \in Batches |-> <<>>]
    /\ sinceCall = [b \in Batches |-> [w \in Workers |-> NoCall]]
    /\ showExplanation = FALSE
    /\ crashed = FALSE
    /\ rt = rtCalled

NextRetry ==
    \/ \E reply \in Replies : rtAttemptReturns(reply)
    \/ \E reply \in Replies : rtAttemptThrows(reply)
    \/ rtWaitOver

SpecRetry == InitRetry /\ [][NextRetry]_vars

----------------------------------------------------------------------------
(* Properties of the pipeline (SpecPipeline) *)

\* the workers inside `await analyzeQuestionImage(base64)`
outstanding == { bw \in Batches \X Workers : wpc[bw[1]][bw[2]] = "remote" }

\* C1: at no moment are more than MAX_CONCURRENT_REQUESTS remote analysis calls
\* outstanding, whatever the user does, a reset followed by a new upload while the
\* workers of the old batch still run included.
C1_ConcurrencyBound == Cardinality(outstanding) <= MAX_CONCURRENT_REQUESTS

\* where file k of invocation b is: in the queue, with a worker, or finished
queuedAt(b, k) == { j \in DOMAIN queue[b] : queue[b][j] = files[b][k] }
heldBy(b, k) ==
    { w \in Workers : wpc[b][w] \notin {"none", "done"} /\ wfile[b][w] = files[b][k] }
finishedAt(b, k) == { j \in DOMAIN outcomes[b] : outcomes[b][j].path = files[b][k].path }

\* the first batch of the run, not discarded by a reset
firstBatchShown == nBatches = 1 /\ status # "SETUP"

succeeded(b) == SelectSeq(outcomes[b], LAMBDA e : e.ok)
succeededPaths(b) == [j \in DOMAIN succeeded(b) |-> succeeded(b)[j].path]

\* C3: a job that fails for good stops no worker: once the pool of a batch is done
\* every one of its files has been processed and none is left in the queue; the
\* question list holds exactly the jobs that succeeded, and processedCount has
\* reached totalToProcess.
C3_FailureStopsNothing ==
    /\ \A b \in Batches : poolDone[b] =>
          /\ queue[b] = <<>>
          /\ \A w \in Workers : wpc[b][w] \in {"none", "done"}
          /\ Len(outcomes[b]) = Len(files[b])
    /\ firstBatchShown =>
          /\ [j \in DOMAIN questionsRef |-> questionsRef[j].image] = succeededPaths(1)
          /\ poolDone[1] =>
                /\ processedCount = totalToProcess
                /\ processedCount = Len(files[1])

\* a batch of two files, done: the first job failed, the second one succeeded
C3_Witness ==
    /\ firstBatchShown
    /\ poolDone[1]
    /\ Len(outcomes[1]) = 2
    /\ ~outcomes[1][1].ok
    /\ outcomes[1][2].ok
    /\ Len(questionsRef) = 1
    /\ processedCount = 2
    /\ totalToProcess = 2

\* the fingerprints the cache of invocation b held when the batch started: the
\* records of the invocation itself carry its number
snapshot(b) == { id \in CacheIds : cache[b][id] # NoRec /\ cache[b][id].run # b }

\* the jobs of invocation b that went to the remote analysis
remoteJobs(b) == { j \in DOMAIN outcomes[b] : outcomes[b][j].remote }

\* the jobs of invocation b whose fingerprint was not cached when the batch started
uncachedJobs(b) == { k \in DOMAIN files[b] : cacheId(files[b][k]) \notin snapshot(b) }

\* the file of invocation b with path p
fileAt(b, p) == CHOOSE f \in { files[b][k] : k \in DOMAIN files[b] } : f.path = p

\* C8 as stated: in a finished batch the number of remote analyses equals the
\* number of jobs whose fingerprint is not cached.
C8_RemoteEqualsUncached ==
    \A b \in Batches :
        poolDone[b] => Cardinality(remoteJobs(b)) = Cardinality(uncachedJobs(b))

\* C8: a job whose fingerprint is in the persisted cache when its batch starts makes
\* no remote call and its question is built from exactly the cached record; in a
\* finished batch the number of remote analyses is at most the number of jobs not
\* cached at the start and at least the number of their distinct fingerprints, so
\* the two are equal when no two such jobs share a fingerprint.
C8_CachedJobsSkipRemote ==
    /\ \A b \in Batches : \A k \in DOMAIN files[b] :
          cacheId(files[b][k]) \in snapshot(b) =>
              /\ \A w \in heldBy(b, k) : wpc[b][w] \in {"read", "hitDelay"}
              /\ \A j \in finishedAt(b, k) :
                    outcomes[b][j].ok /\ ~outcomes[b][j].remote
    /\ \A j \in DOMAIN questionsRef :
          LET b == questionsRef[j].id[1]
              id == cacheId(fileAt(b, questionsRef[j].id[2]))
          IN  id \in snapshot(b) => questionsRef[j].rec = cache[b][id]
    /\ \A b \in Batches : poolDone[b] =>
          /\ Cardinality(remoteJobs(b)) <= Cardinality(uncachedJobs(b))
          /\ Cardinality(remoteJobs(b)) >=
                Cardinality({ cacheId(files[b][k]) : k \in uncachedJobs(b) })

\* a finished batch of two files, one cached by an earlier run and one not: one
\* remote call, two questions, the cached one built from the stored record
C8_Witness ==
    /\ firstBatchShown
    /\ poolDone[1]
    /\ Len(files[1]) = 2
    /\ Cardinality(snapshot(1)) = 1
    /\ Cardinality(uncachedJobs(1)) = 1
    /\ Cardinality(remoteJobs(1)) = 1
    /\ Len(questionsRef) = 2
    /\ \E j \in DOMAIN questionsRef : questionsRef[j].rec = OldRec
    /\ processedCount = 2

\* C9: on a cache miss the record is in the persisted cache at the step the call
\* resolves, a step that neither appends the question nor counts the job; the
\* question of a fresh result is appended only by a worker that has stored it; a
\* call that fails changes neither the cache object nor the persisted cache.
C9_WriteBeforeComplete ==
    [][ /\ \A b \in Batches, w \in Workers :
              /\ (wpc[b][w] = "remote" /\ wpc'[b][w] = "spacing") =>
                    /\ lsCache' # NoItem
                    /\ <<cacheId(wfile[b][w]), wres'[b][w]>> \in lsCache'.members
                    /\ wres'[b][w] = Rec(b, wfile[b][w])
                    /\ questionsRef' = questionsRef
                    /\ processedCount' = processedCount
                    /\ outcomes' = outcomes
              /\ (wpc[b][w] = "remote" /\ wpc'[b][w] \notin {"remote", "spacing"}) =>
                    /\ lsCache' = lsCache
                    /\ cache' = cache
                    /\ questionsRef' = questionsRef
                    /\ ~outcomes'[b][Len(outcomes'[b])].ok
        /\ \A b \in Batches :
              (/\ Len(outcomes'[b]) > Len(outcomes[b])
               /\ outcomes'[b][Len(outcomes'[b])].ok
               /\ outcomes'[b][Len(outcomes'[b])].remote) =>
                    \E w \in Workers :
                        /\ wpc[b][w] = "spacing"
                        /\ wfile[b][w].path = outcomes'[b][Len(outcomes'[b])].path
                        /\ cache[b][cacheId(wfile[b][w])] # NoRec
                        /\ questionsRef'[Len(questionsRef')].rec = wres[b][w]
      ]_vars

\* a job finished with a fresh result, whose record the persisted cache holds, and
\* another one failed, with nothing stored for it
C9_Witness ==
    /\ firstBatchShown
    /\ Len(outcomes[1]) = 2
    /\ outcomes[1][1].ok /\ outcomes[1][1].remote
    /\ ~outcomes[1][2].ok
    /\ cacheId(files[1][1]) \in Persisted
    /\ cacheId(files[1][2]) \notin Persisted

\* C10: no cache write is lost: a fingerprint the persisted cache holds stays in it
\* under every interleaving, the workers of a batch discarded by reset running
\* alongside those of a newer batch included.
C10_NoWriteLost == [][ \A id \in Persisted : id \in Persisted' ]_vars

----------------------------------------------------------------------------
(* Properties of one analyzeQuestionImage call (SpecRetry) *)

\* the errors an attempt can end with
Errors == ApiErrors \cup {MalformedError}

\* the two classes of error by what they are: HTTP 429 or RESOURCE_EXHAUSTED, in the
\* status or named in the message; a server status 500..599
QuotaExceeded ==
    { e \in Errors : e.status = 429
                     \/ e.message \in {"429 Too Many Requests", "RESOURCE_EXHAUSTED"} }
ServerError == { e \in Errors : e.status \in 500..599 }

\* C4: fn is attempted at most `retries` (5) times: the error of the fifth attempt
\* rejects the call as it is, after four waits and without a further wait or a
\* sixth attempt; a rejected call always carries the error of its last attempt.
C4_AtMostFiveAttempts ==
    /\ rt.attempts <= retries
    /\ Len(rt.errors) <= retries
    /\ Len(rt.waits) <= retries - 1
    /\ Len(rt.errors) = retries =>
          /\ rt.pc = "rejected"
          /\ rt.error = rt.errors[retries]
          /\ rt.attempts = retries
          /\ Len(rt.waits) = retries - 1
    /\ rt.pc = "rejected" =>
          /\ rt.error = rt.errors[Len(rt.errors)]
          /\ rt.attempts = Len(rt.errors)
    /\ rt.pc = "resolved" => rt.error = NoError

\* five attempts failed with retryable errors: the call rejects with the fifth
C4_Witness ==
    /\ rt.pc = "rejected"
    /\ Len(rt.errors) = retries
    /\ \A k \in DOMAIN rt.errors : rt.errors[k] \in QuotaExceeded \cup ServerError
    /\ Len(rt.waits) = retries - 1

\* C5: only an error of class QuotaExceeded or ServerError is followed by a wait
\* and another attempt, and before the last attempt it always is; any other error
\* rejects the call at once, at the attempt it occurs.
C5_OnlyQuotaAndServerRetried ==
    /\ \A k \in DOMAIN rt.waits : rt.errors[k] \in QuotaExceeded \cup ServerError
    /\ \A k \in DOMAIN rt.errors :
          IF rt.errors[k] \in QuotaExceeded \cup ServerError
          THEN k < retries => Len(rt.waits) >= k
          ELSE /\ k = Len(rt.errors)
               /\ rt.pc = "rejected"
               /\ rt.error = rt.errors[k]
               /\ rt.attempts = k
               /\ Len(rt.waits) = k - 1

\* a quota error was retried, then a 400 rejected the call at the second attempt
C5_Witness ==
    /\ rt.pc = "rejected"
    /\ Len(rt.errors) = 2
    /\ rt.errors[1] \in QuotaExceeded
    /\ rt.error.status = 400
    /\ Len(rt.waits) = 1

RECURSIVE pow2(_)
pow2(n) == IF n = 0 THEN 1 ELSE 2 * pow2(n - 1)

\* C6: the wait after attempt k is initialDelay * 2^(k-1) for a ServerError and
\* that times (k - 1) + 1.5 for a QuotaExceeded error (both sides doubled): with
\* initialDelay 3000, 4500 ms after a first and 15000 ms after a second quota error.
C6_WaitTimes ==
    /\ \A k \in DOMAIN rt.waits :
          2 * rt.waits[k] =
              initialDelay * pow2(k - 1)
                  * (IF rt.errors[k] \in QuotaExceeded THEN 2 * (k - 1) + 3 ELSE 2)
    /\ (Len(rt.waits) >= 1 /\ rt.errors[1] \in QuotaExceeded) => rt.waits[1] = 4500
    /\ (Len(rt.waits) >= 2 /\ rt.errors[2] \in QuotaExceeded) => rt.waits[2] = 15000

\* two quota errors, then a server error and a quota error: four waits
C6_Witness ==
    /\ Len(rt.waits) = 4
    /\ rt.waits[1] = 4500
    /\ rt.waits[2] = 15000
    /\ rt.errors[3] \in ServerError \ QuotaExceeded
    /\ rt.waits[3] = 12000
    /\ rt.errors[4] \in QuotaExceeded
    /\ rt.waits[4] = 108000

\* C7: a response with an empty or unparsable text makes the attempt throw the
\* Malformed error, which is never retried: it rejects the call at that attempt,
\* and the worker gets it as one of the errors the call rejects with.
C7_MalformedNeverRetried ==
    /\ \A reply \in Replies :
          (reply.kind = "response" /\ reply.text # "json") =>
              fnError(reply) = MalformedError
    /\ MalformedError \in Rejections
    /\ \A k \in DOMAIN rt.errors :
          rt.errors[k] = MalformedError =>
              /\ k = Len(rt.errors)
              /\ rt.pc = "rejected"
              /\ rt.error = MalformedError
              /\ rt.attempts = k
              /\ Len(rt.waits) = k - 1

\* two retried errors, then a malformed response at the third attempt
C7_Witness ==
    /\ rt.pc = "rejected"
    /\ rt.error = MalformedError
    /\ Len(rt.errors) = 3
    /\ Len(rt.waits) = 2

----------------------------------------------------------------------------
(* Properties of the rate-limit signal *)

\* some attempt of a call that goes through `script` fails with a quota error
quotaFailed(script) == \E k \in DOMAIN script : fnError(script[k]) \in QuotaExceeded

\* C11: when a call of analyzeQuestionImage settles after an attempt that failed
\* with a QuotaExceeded error, the RateLimitSignal is set: also when a later
\* attempt succeeded and the job produces a question.
C11_SignalOnQuotaFailure ==
    [][ \A b \in Batches, w \in Workers : \A script \in Scripts :
           (/\ quotaFailed(script)
            /\ \/ analyzeResolves(b, w, script)
               \/ /\ script \in Rejecting
                  /\ analyzeRejects(b, w, retryWithBackoff(script).error))
           => isRateLimited'
      ]_vars

\* C12: once set, the RateLimitSignal stays set until the next batch starts: only
\* an upload clears it, no job and no other operation does (start exam, answer,
\* next, reset), and it is false when a batch starts.
C12_SignalStaysSet ==
    [][ /\ (isRateLimited /\ ~isRateLimited') =>
               \E selection \in Selections : handleFileUpload(selection)
        /\ nBatches' # nBatches => ~isRateLimited'
      ]_vars

----------------------------------------------------------------------------
(* Properties of the session *)

\* the exam is shown and its session is still loading
examStillLoading == status = "EXAM" /\ session # NULL /\ session.isStillLoading

\* C13: a session started by startExam at any moment of a batch does not stay
\* loading for ever: its stillLoading eventually becomes false (or the session is
\* discarded), every worker making progress.
C13_StillLoadingEnds == examStillLoading ~> ~examStillLoading

\* invocation b is fully drained: its queue is empty and no job is in flight
drained(b) == queue[b] = <<>> /\ \A w \in Workers : wpc[b][w] \in {"none", "done"}

\* C14: the stillLoading of the session of an exam only ever changes from true to
\* false, and it is false only when the batch the session gets its questions from
\* (the one started by the last upload) is fully drained.
C14_FalseOnlyWhenDrained ==
    [][ /\ (/\ status = "EXAM" /\ session # NULL /\ ~session.isStillLoading
            /\ status' = "EXAM" /\ session' # NULL)
           => ~session'.isStillLoading
        /\ (status' = "EXAM" /\ session' # NULL /\ ~session'.isStillLoading)
           => drained(nBatches)'
      ]_vars

\* the exam shows the last question of its session
atLastQuestion ==
    examViewMounted(status, session)
        /\ session.currentIndex + 1 >= Len(session.questions)

\* C15: next on the last question while the session is still loading is a no-op:
\* the cursor and the rest of the session, the status (EXAM), the history and the
\* persisted history stay as they are, no HistoryEntry is created.
C15_FinalizationGate ==
    [][ (atLastQuestion /\ session.isStillLoading /\ handleNext) =>
            /\ session'.currentIndex = session.currentIndex
            /\ session' = session
            /\ status' = "EXAM"
            /\ history' = history
            /\ lsHistory' = lsHistory
      ]_vars

\* the last question is answered and its explanation was left with next while the
\* session was loading, as it still is: the exam is where it was
C15_Witness ==
    /\ atLastQuestion
    /\ ~crashed
    /\ Len(session.questions) > 0
    /\ session.isStillLoading
    /\ ~showExplanation
    /\ session.questions[session.currentIndex + 1].id \in DOMAIN session.answers
    /\ history = <<>>

\* the answers of session se that are the correct answer of their question
correctAnswers(se) ==
    { id \in DOMAIN se.answers :
        \E k \in DOMAIN se.questions :
            /\ se.questions[k].id = id
            /\ se.answers[id] = se.questions[k].correctAnswer }

\* C17: in every state with a session, score is the number of entries of answers
\* whose label is the correct answer of their question, so that
\* score <= number of answers <= number of questions: whatever options are
\* selected and however next is pressed, next presses the gate rejects included.
C17_ScoreCountsCorrectAnswers ==
    session # NULL =>
        /\ session.score = Cardinality(correctAnswers(session))
        /\ session.score <= Cardinality(DOMAIN session.answers)
        /\ Cardinality(DOMAIN session.answers) <= Len(session.questions)

\* a is a percentage score of total, rounded to the nearest integer (half up)
roundedPercent(a, score, total) ==
    /\ 2 * total * a - 200 * score <= total
    /\ 2 * total * a - 200 * score > -total

\* C16: a finalization (EXAM to RESULT) happens only with stillLoading false and
\* puts in front of the history, and persists, one entry with score = session.score,
\* total = number of questions and accuracy = round(100 * score / total); for
\* every finalization total >= 1 and 0 <= accuracy <= 100.
C16_HistoryEntry ==
    [][ (status = "EXAM" /\ status' = "RESULT") =>
            /\ ~session.isStillLoading
            /\ Len(history') = Len(history) + 1
            /\ Tail(history') = history
            /\ lsHistory' = history'
            /\ LET entry == Head(history')
               IN  /\ entry.score = session.score
                   /\ entry.total = Len(session.questions)
                   /\ entry.total >= 1
                   /\ roundedPercent(entry.accuracy, entry.score, entry.total)
                   /\ entry.accuracy >= 0
                   /\ entry.accuracy <= 100
      ]_vars

\* C18: whenever a session exists its cursor is a valid index into its questions,
\* 0 <= currentIndex < number of questions, for any sequence of uploads, job
\* completions, start exam, answers, next, finalization, the navigation
\* RESULT -> HISTORY -> SETUP, new uploads and reset.
C18_CursorValid ==
    session # NULL =>
        /\ 0 <= session.currentIndex
        /\ session.currentIndex < Len(session.questions)

----------------------------------------------------------------------------
(* Properties of reset and of the start of an exam *)

\* invocation b was discarded: the app went back to SETUP after its upload, which
\* in the pipeline is what reset does
discarded(b) ==
    /\ b \in 1..nBatches
    /\ b < nBatches \/ status = "SETUP"

\* C19: after reset the outcome of a job of the discarded batch is dropped: the
\* step that ends such a job adds no question to the question list, leaves
\* processedCount and the RateLimitSignal as they are and changes no session.
C19_OutcomeDroppedAfterReset ==
    [][ \A b \in Batches :
           (discarded(b) /\ Len(outcomes'[b]) > Len(outcomes[b])) =>
               /\ questionsRef' = questionsRef
               /\ processedCount' = processedCount
               /\ isRateLimited' = isRateLimited
               /\ session' = session
      ]_vars

\* C20: an exam is started only with at least one question: in no state is the
\* app in EXAM with a session of zero questions (so after a batch whose jobs all
\* failed no exam starts).
C20_NoExamWithoutQuestions ==
    ~(status = "EXAM" /\ session # NULL /\ Len(session.questions) = 0)

----------------------------------------------------------------------------
(* Properties of a session started while its batch is loading *)

\* the job that ended in this step, in invocation b, succeeded
jobSucceeds(b) ==
    /\ Len(outcomes'[b]) > Len(outcomes[b])
    /\ outcomes'[b][Len(outcomes'[b])].ok

\* C21: a session started from the LOADING view while jobs of the batch are
\* pending has cursor 0, score 0, no answers, the questions produced so far and
\* stillLoading = true; and every job of the batch that succeeds while the exam is
\* shown appends its question to the session, the rest of the session unchanged.
C21_SessionWhileLoading ==
    [][ /\ (status = "LOADING" /\ status' = "EXAM" /\ ~drained(nBatches)) =>
              /\ session' # NULL
              /\ session'.currentIndex = 0
              /\ session'.score = 0
              /\ session'.answers = <<>>
              /\ session'.questions = questionsRef
              /\ session'.isStillLoading
        /\ (examViewMounted(status, session) /\ jobSucceeds(nBatches)) =>
              /\ session' # NULL
              /\ session'.questions =
                    Append(session.questions, questionsRef'[Len(questionsRef')])
              /\ session'.currentIndex = session.currentIndex
              /\ session'.score = session.score
              /\ session'.answers = session.answers
      ]_vars

----------------------------------------------------------------------------
(* Properties of the order of the questions *)

\* the job of invocation b on `file` has ended with a question
succeededFile(b, file) ==
    \E j \in DOMAIN outcomes[b] : outcomes[b][j].path = file.path /\ outcomes[b][j].ok

\* the paths of the files of invocation b whose job succeeded, in input order
inputOrderOfSucceeded(b) ==
    LET fs == SelectSeq(files[b], LAMBDA f : succeededFile(b, f))
    IN  [j \in DOMAIN fs |-> fs[j].path]

\* the images of the question list, in list order
listedImages == [j \in DOMAIN questionsRef |-> questionsRef[j].image]

\* C22: every job that succeeds puts its question at the end of the question
\* list, which is so in the order the outcomes arrive; and with one worker
\* (App.tsx) the list of a batch being shown is the input order of its files,
\* restricted to the jobs that succeeded, whatever hits, misses and failures occur.
C22_InputOrder ==
    [][ /\ \A b \in Batches : jobSucceeds(b) =>
              /\ Len(questionsRef') = Len(questionsRef) + 1
              /\ SubSeq(questionsRef', 1, Len(questionsRef)) = questionsRef
              /\ questionsRef'[Len(questionsRef')].image =
                    outcomes'[b][Len(outcomes'[b])].path
        /\ (variant = "App" /\ nBatches' >= 1 /\ status' \in {"LOADING", "EXAM"}) =>
              listedImages' = inputOrderOfSucceeded(nBatches)'
      ]_vars

----------------------------------------------------------------------------
(* Properties of the pacing of a worker *)

\* worker w of invocation b starts a remote call in this step
remoteCallStarts(b, w) == wpc[b][w] # "remote" /\ wpc'[b][w] = "remote"

\* C23: when a worker that has made a remote call before starts its next one, it
\* has waited at least REQUEST_SPACING since the earlier call ended, whether that
\* call succeeded or failed for good.
C23_SpacingBetweenCalls ==
    [][ \A b \in Batches, w \in Workers :
           (remoteCallStarts(b, w) /\ sinceCall[b][w] # NoCall) =>
               sinceCall'[b][w] >= REQUEST_SPACING
      ]_vars

----------------------------------------------------------------------------
(* Properties of an upload without images *)

\* C24: an upload whose selection holds no accepted image file ends at once: it
\* starts no invocation of processBatch and no worker, no worker enters a remote
\* call, the question list is empty, the counts are 0, no session is made and the
\* app is in SETUP, not in LOADING.
C24_NoAcceptedFile ==
    [][ \A selection \in Selections :
           (filter(selection) = <<>> /\ handleFileUpload(selection)) =>
               /\ status' = "SETUP"
               /\ questionsRef' = <<>>
               /\ processedCount' = 0
               /\ totalToProcess' = 0
               /\ session' = session
               /\ UNCHANGED <<nBatches, files, queue, wpc, wfile, poolDone, outcomes>>
      ]_vars

\* a batch was reset with its job in the remote call, and then a selection without
\* images was uploaded (totalToProcess is 0 again): the app is in SETUP without
\* questions, no second invocation was started
C24_Witness ==
    /\ nBatches = 1
    /\ Len(files[1]) = 1
    /\ wpc[1][1] = "remote"
    /\ totalToProcess = 0
    /\ status = "SETUP"
    /\ session = NULL
    /\ questionsRef = <<>>
    /\ processedCount = 0

----------------------------------------------------------------------------
(* Properties of the two writers of a session *)

\* a step of a worker, the statements after Promise.all included: the only steps
\* besides an upload that move a worker
ingestionStep == wpc' # wpc /\ nBatches' = nBatches

\* a step of the exam: an option selected, or next
consumerStep == (\E option \in Labels : handleOptionSelect(option)) \/ handleNext

\* C25: a job completion or pool completion creates and removes no session and
\* changes at most its questions and stillLoading, never cursor, answers or score;
\* answer and next change at most cursor, answers and score, never questions or
\* stillLoading, and act only on a session whose cursor is below the number of its
\* questions.
C25_DisjointWriters ==
    [][ /\ ingestionStep =>
              /\ (session = NULL) = (session' = NULL)
              /\ session # NULL =>
                    /\ session'.currentIndex = session.currentIndex
                    /\ session'.answers = session.answers
                    /\ session'.score = session.score
        /\ consumerStep =>
              /\ session # NULL
              /\ session' # NULL
              /\ session.currentIndex < Len(session.questions)
              /\ session'.questions = session.questions
              /\ session'.isStillLoading = session.isStillLoading
      ]_vars

\* an exam whose two questions are answered, the cursor on the second one, the
\* batch finished: both writers have acted on the session
C25_Witness ==
    /\ status = "EXAM"
    /\ session # NULL
    /\ Len(session.questions) = 2
    /\ session.currentIndex = 1
    /\ Cardinality(DOMAIN session.answers) = 2
    /\ session.score >= 1
    /\ ~session.isStillLoading
    /\ poolDone[nBatches]

----------------------------------------------------------------------------
(* Properties of the history *)

\* the ids of the entries of a history
entryIds(hist) == { hist[j].id : j \in DOMAIN hist }

\* the session is finalized in this step
finalization == status = "EXAM" /\ status' = "RESULT"

\* C26: a finalization puts exactly one entry, with the id of the session, in front
\* of the history and of the persisted history, all earlier entries kept as they
\* are, and the session has no entry yet: no session is finalized twice.  The
\* history and the persisted history change in no other step but the bulk clear,
\* which empties both.
C26_FinalizedOnce ==
    [][ /\ finalization =>
              /\ session # NULL
              /\ session.id \notin entryIds(lsHistory)
              /\ Len(lsHistory') = Len(lsHistory) + 1
              /\ Head(lsHistory').id = session.id
              /\ Tail(lsHistory') = lsHistory
              /\ history' = lsHistory'
        /\ (~finalization /\ (lsHistory' # lsHistory \/ history' # history)) =>
              /\ clearHistory
              /\ lsHistory' = <<>>
              /\ history' = <<>>
      ]_vars

\* the second session of the run has been finalized: the persisted history holds
\* its entry in front of the one of the first session
C26_Witness ==
    /\ status = "RESULT"
    /\ session # NULL
    /\ Len(lsHistory) = 2
    /\ lsHistory[1].id = session.id
    /\ lsHistory[2].id # session.id
    /\ history = lsHistory

----------------------------------------------------------------------------
(* Properties of the cache within one batch *)

\* the remote calls of invocation b for fingerprint id that resolved with a record:
\* those of the jobs that ended, and those of the workers in the spacing wait
freshResultsFor(b, id) ==
    Cardinality({ j \in DOMAIN outcomes[b] :
                    /\ outcomes[b][j].remote /\ outcomes[b][j].ok
                    /\ cacheId(fileAt(b, outcomes[b][j].path)) = id })
    + Cardinality({ w \in Workers :
                      wpc[b][w] = "spacing" /\ cacheId(wfile[b][w]) = id })

\* C27: within one batch at most one remote call brings a record for a
\* fingerprint, two files of the same name and size included (a call that fails
\* is not counted here), and a record the batch has written for a fingerprint is
\* never replaced by a different one: with one worker (App.tsx) and with two
\* (part_000).
C27_WrittenOncePerBatch ==
    [][ \A b \in Batches :
           /\ \A id \in CacheIds : freshResultsFor(b, id)' <= 1
           /\ \A id \in CacheIds :
                 (cache[b][id] # NoRec /\ cache[b][id].run = b) =>
                     cache'[b][id] = cache[b][id]
      ]_vars

----------------------------------------------------------------------------
(* Properties of the workers of a discarded batch *)

\* C28: once a batch is discarded by reset its workers take no further file from
\* its queue and start no further remote call.
C28_NoWorkAfterReset ==
    [][ \A b \in Batches :
           discarded(b) =>
               /\ queue'[b] = queue[b]
               /\ \A w \in Workers : ~remoteCallStarts(b, w)
      ]_vars

----------------------------------------------------------------------------
(* Properties of the order of a worker's steps on a cache miss *)

\* the question of the file worker w of invocation b holds is in the question list
questionListed(b, w) ==
    \E j \in DOMAIN questionsRef : questionsRef[j].id = <<b, wfile[b][w].path>>

\* C29: on a cache miss the worker calls the remote analysis, writes the record
\* to the cache, emits the question and only then waits REQUEST_SPACING: when the
\* spacing wait of a fresh result begins the record is stored and the question is
\* in the question list already, and the worker takes its next file after the wait.
C29_EmitBeforeSpacing ==
    [][ \A b \in Batches, w \in Workers :
           (wpc[b][w] = "remote" /\ wpc'[b][w] = "spacing") =>
               /\ cacheId(wfile[b][w]) \in Persisted'
               /\ questionListed(b, w)'
               /\ wfile'[b][w] = wfile[b][w]
      ]_vars

----------------------------------------------------------------------------
(* Properties of the pool of workers of a batch *)

\* the workers invocation b has started
workersOf(b) == { w \in Workers : wpc[b][w] # "none" }

\* the number of files taken from the queue of invocation b
taken(b) == Len(files[b]) - Len(queue[b])

\* worker w of invocation b takes a file from the queue in this step
dequeues(b, w) ==
    /\ b <= nBatches
    /\ wfile'[b][w] # wfile[b][w]
    /\ wfile'[b][w] # NoFile

----------------------------------------------------------------------------
(* Properties of the questions of a session *)

\* sequence s is a prefix of sequence t
isPrefix(s, t) == Len(s) <= Len(t) /\ SubSeq(t, 1, Len(s)) = s

\* C31: the questions of a session are append-only: in every step that keeps the
\* session (same id) the questions it had are a prefix of the questions it has
\* then, so no question is removed, replaced or reordered, whatever job
\* completions and user operations interleave.
C31_QuestionsAppendOnly ==
    [][ (session # NULL /\ session' # NULL /\ session'.id = session.id) =>
            isPrefix(session.questions, session'.questions)
      ]_vars

----------------------------------------------------------------------------
(* Properties of the rate-limit signal of a failed job *)

\* C32: a job whose call rejects sets the RateLimitSignal exactly when the retry
\* policy classifies the error it rejects with as QuotaExceeded (status 429, or a
\* message with 429 or RESOURCE_EXHAUSTED); a job that fails with any other error
\* leaves the signal as it is.
C32_SignalIffQuotaClass ==
    [][ \A b \in Batches, w \in Workers : \A err \in Rejections :
           analyzeRejects(b, w, err) =>
               IF isQuotaExceeded(err) THEN isRateLimited'
               ELSE isRateLimited' = isRateLimited
      ]_vars

----------------------------------------------------------------------------
(* Properties of the end of a batch *)

\* the statements after `await Promise.all(workers)` of invocation b run in this step
poolCompletes(b) == poolDone'[b] /\ ~poolDone[b]

\* C33: when the pool of the batch being loaded completes with the app still in
\* LOADING and at least one question produced, the exam starts by itself: the
\* status becomes EXAM and the session holds all the questions produced, with
\* cursor 0 and stillLoading false.
C33_AutoStart ==
    [][ \A b \in Batches :
           (/\ poolCompletes(b)
            /\ b = nBatches
            /\ status = "LOADING"
            /\ Len(questionsRef') > 0) =>
               /\ status' = "EXAM"
               /\ session' # NULL
               /\ session'.questions = questionsRef'
               /\ session'.currentIndex = 0
               /\ ~session'.isStillLoading
      ]_vars

----------------------------------------------------------------------------
(* Properties of the progress counts *)

\* C34: in every state 0 <= processedCount <= totalToProcess, and the question
\* list holds at most processedCount questions: for any sequence of uploads, job
\* completions, exam starts and resets.
C34_ProgressBounds ==
    /\ 0 <= processedCount
    /\ processedCount <= totalToProcess
    /\ Len(questionsRef) <= processedCount

----------------------------------------------------------------------------
(* Termination of a batch (SpecLive) *)

\* invocation b has ended: every worker has returned, the queue is empty, every
\* file has had its `finally`, and the statements after Promise.all have run
terminated(b) ==
    /\ poolDone[b]
    /\ drained(b)
    /\ Len(outcomes[b]) = Len(files[b])

\* C35: every file read completing and every remote call settling, every batch
\* terminates whatever errors its jobs raise: all its workers return with every
\* file processed and the pool-completion step runs, once (after it the batch
\* takes no further step); and while the batch is the one being shown,
\* processedCount reaches totalToProcess.
C35_BatchTerminates ==
    /\ \A b \in Batches : (nBatches >= b) ~> terminated(b)
    /\ [][ \A b \in Batches :
              poolDone[b] =>
                  /\ poolDone'[b]
                  /\ wpc'[b] = wpc[b]
                  /\ outcomes'[b] = outcomes[b] ]_vars
    /\ \A b \in Batches :
          (nBatches = b /\ ~discarded(b)) ~>
              (discarded(b) \/ nBatches # b \/ processedCount = totalToProcess)

====
